---------------------------- MODULE Spec2Model ----------------------------
(***************************************************************************)
(* rsmailcheck (src/main.rs): header extraction (parse_file), RFC 2047     *)
(* encoded-word decoding (parse_header, parse_encoding,                    *)
(* decode_charset_crate) and the task-per-file driver (main).              *)
(*                                                                         *)
(* Text is a sequence of Unicode code points, bytes are 0..255.            *)
(***************************************************************************)
EXTENDS Integers, Sequences, FiniteSets, TLC

(***************************************************************************)
(* Characters                                                              *)
(***************************************************************************)

\* The printable ASCII characters, code points 32..126 in order.
Printable ==
  << " ", "!", "\"", "#", "$", "%", "&", "'", "(", ")", "*", "+", ",", "-",
     ".", "/", "0", "1", "2", "3", "4", "5", "6", "7", "8", "9", ":", ";",
     "<", "=", ">", "?", "@", "A", "B", "C", "D", "E", "F", "G", "H", "I",
     "J", "K", "L", "M", "N", "O", "P", "Q", "R", "S", "T", "U", "V", "W",
     "X", "Y", "Z", "[", "\\", "]", "^", "_", "BACKTICK", "a", "b", "c", "d", "e",
     "f", "g", "h", "i", "j", "k", "l", "m", "n", "o", "p", "q", "r", "s",
     "t", "u", "v", "w", "x", "y", "z", "{", "|", "}", "~" >>

\* Code point of a printable ASCII character.
Ord(c) == 31 + (CHOOSE i \in 1..Len(Printable) : Printable[i] = c)

\* The text spelled by a tuple of printable characters.
S(t) == [i \in 1..Len(t) |-> Ord(t[i])]

RECURSIVE Concat(_)
\* [&str]::concat / the concatenation of a sequence of texts.
Concat(ss) == IF ss = << >> THEN << >> ELSE Head(ss) \o Concat(Tail(ss))

\* str::starts_with
StartsWith(s, p) == Len(s) >= Len(p) /\ SubSeq(s, 1, Len(p)) = p

\* s with its first n code points removed.
Drop(s, n) == SubSeq(s, n + 1, Len(s))

\* char::is_whitespace (White_Space), as used by str::trim_start / trim_end.
IsWhitespace(c) ==
  \/ c \in 9..13
  \/ c \in {32, 133, 160, 5760, 8232, 8233, 8239, 8287, 12288}
  \/ c \in 8192..8202

RECURSIVE TrimBoth(_)
\* str::trim
TrimBoth(s) ==
  IF s = << >> THEN s
  ELSE IF IsWhitespace(s[1]) THEN TrimBoth(Tail(s))
  ELSE IF IsWhitespace(s[Len(s)]) THEN TrimBoth(SubSeq(s, 1, Len(s) - 1))
  ELSE s

RECURSIVE TrimEnd(_)
\* str::trim_end
TrimEnd(s) ==
  IF s # << >> /\ IsWhitespace(s[Len(s)])
  THEN TrimEnd(SubSeq(s, 1, Len(s) - 1)) ELSE s

\* str::trim in place of str::trim_start.
TrimStartAndEnd(s) == TrimBoth(s)

RECURSIVE TrimStart(_)
\* str::trim_start
TrimStart(s) ==
  IF s # << >> /\ IsWhitespace(s[1]) THEN TrimStart(Tail(s)) ELSE s

RECURSIVE TrimStartMatches(_, _)
\* str::trim_start_matches(pat): removes EVERY leading repetition of pat.
TrimStartMatches(s, p) ==
  IF p # << >> /\ StartsWith(s, p)
  THEN TrimStartMatches(Drop(s, Len(p)), p) ELSE s

\* u8/str::to_ascii_uppercase and to_ascii_lowercase on one code point.
AsciiUpper(c) == IF c \in 97..122 THEN c - 32 ELSE c
AsciiLower(c) == IF c \in 65..90 THEN c + 32 ELSE c
ToAsciiUppercase(s) == [i \in 1..Len(s) |-> AsciiUpper(s[i])]
ToAsciiLowercase(s) == [i \in 1..Len(s) |-> AsciiLower(s[i])]


(***************************************************************************)
(* Transport decoding: Base64 (decode_base64) and Quoted-Printable         *)
(* (quoted_printable::decode in ParseMode::Robust).  Both take the UTF-8   *)
(* bytes of the payload; every byte of a non-ASCII code point is >= 128,   *)
(* so a non-ASCII code point is an invalid Base64 symbol and is filtered   *)
(* out by the Quoted-Printable decoder.                                    *)
(***************************************************************************)

\* Result<T>: Ok(v) or Err(e).
Ok(v) == [ok |-> TRUE, val |-> v]
Err(e) == [ok |-> FALSE, val |-> e]

\* Value of a symbol of the standard Base64 alphabet, -1 for any other.
B64Val(c) ==
  IF c \in 65..90 THEN c - 65
  ELSE IF c \in 97..122 THEN c - 71
  ELSE IF c \in 48..57 THEN c + 4
  ELSE IF c = 43 THEN 62
  ELSE IF c = 47 THEN 63
  ELSE -1

\* Number of '=' characters at the end of data.
RECURSIVE B64Pad(_)
B64Pad(data) ==
  IF data # << >> /\ data[Len(data)] = 61
  THEN 1 + B64Pad(SubSeq(data, 1, Len(data) - 1)) ELSE 0

\* The bytes of the 4-symbol group starting at i, keeping n of them.
B64Group(data, i, n) ==
  LET v(k) == IF B64Val(data[i + k]) < 0 THEN 0 ELSE B64Val(data[i + k])
      w == v(0) * 262144 + v(1) * 4096 + v(2) * 64 + v(3)
      bytes == << w \div 65536, (w \div 256) % 256, w % 256 >>
  IN SubSeq(bytes, 1, n)

RECURSIVE B64Bytes(_, _, _)
B64Bytes(data, i, pad) ==
  IF i > Len(data) THEN << >>
  ELSE B64Group(data, i, IF i + 3 = Len(data) THEN 3 - pad ELSE 3)
         \o B64Bytes(data, i + 4, pad)

\* BASE64_STANDARD.decode: standard alphabet, canonical padding required,
\* no non-zero trailing bits.
decode_base64(data) ==
  LET n == Len(data)
      pad == B64Pad(data)
      last == IF n > pad THEN B64Val(data[n - pad]) ELSE -1
  IN IF n = 0 THEN Ok(<< >>)
     ELSE IF /\ n % 4 = 0
             /\ pad <= 2
             /\ \A i \in 1..(n - pad) : B64Val(data[i]) >= 0
             /\ (pad = 1 => last % 4 = 0)
             /\ (pad = 2 => last % 16 = 0)
     THEN Ok(B64Bytes(data, 1, pad))
     ELSE Err("base64 error")

\* char::is_digit(16) and char::to_digit(16).
IsHexDigit(c) == c \in 48..57 \/ c \in 65..70 \/ c \in 97..102
HexVal(c) ==
  IF c \in 48..57 THEN c - 48 ELSE IF c \in 65..70 THEN c - 55 ELSE c - 87

RECURSIVE QpScan(_, _)
\* The escape scan of one line, from index i.
QpScan(b, i) ==
  IF i > Len(b) THEN << >>
  ELSE IF b[i] # 61 THEN << b[i] >> \o QpScan(b, i + 1)
  ELSE IF i + 1 > Len(b) THEN << >>
  ELSE IF i + 2 > Len(b) THEN << 61, b[i + 1] >>
  ELSE IF IsHexDigit(b[i + 1]) /\ IsHexDigit(b[i + 2])
       THEN << HexVal(b[i + 1]) * 16 + HexVal(b[i + 2]) >> \o QpScan(b, i + 3)
  ELSE << 61, b[i + 1], b[i + 2] >> \o QpScan(b, i + 3)

\* quoted_printable::decode(data, ParseMode::Robust) on a payload without
\* line feeds (the payload is part of one line): bytes other than tab, CR
\* and printable ASCII are dropped, trailing whitespace is trimmed, escapes
\* are decoded and invalid escapes pass through.  Robust mode never fails.
QuotedPrintableDecode(data) ==
  LET IsKept(c) == c = 9 \/ c = 13 \/ c \in 32..126
  IN Ok(QpScan(TrimEnd(SelectSeq(data, IsKept)), 1))

(***************************************************************************)
(* Charset transcoding (encoding_rs)                                       *)
(***************************************************************************)

\* U+FFFD REPLACEMENT CHARACTER, emitted for malformed sequences.
Replacement == 65533

\* windows-1252 code points of the bytes 0x80..0x9F.
Windows1252High ==
  << 8364, 129, 8218, 402, 8222, 8230, 8224, 8225, 710, 8240, 352, 8249,
     338, 141, 381, 143, 144, 8216, 8217, 8220, 8221, 8226, 8211, 8212, 732,
     8482, 353, 8250, 339, 157, 382, 376 >>

\* WINDOWS_1252 decode: single byte, never malformed.
Windows1252Decode(bytes) ==
  [i \in 1..Len(bytes) |->
     IF bytes[i] \in 128..159 THEN Windows1252High[bytes[i] - 127]
     ELSE bytes[i]]

RECURSIVE Utf8Step(_, _, _)
\* The UTF-8 decoder of the Encoding Standard.  d holds the code point
\* being assembled, the bytes still needed and the allowed range of the
\* next continuation byte.
Utf8Step(bytes, i, d) ==
  LET idle == [cp |-> 0, needed |-> 0, lower |-> 128, upper |-> 191]
  IN
  IF i > Len(bytes)
  THEN IF d.needed # 0 THEN << Replacement >> ELSE << >>
  ELSE LET b == bytes[i] IN
    IF d.needed = 0
    THEN IF b <= 127 THEN << b >> \o Utf8Step(bytes, i + 1, idle)
         ELSE IF b \in 194..223
           THEN Utf8Step(bytes, i + 1, [idle EXCEPT !.cp = b % 32, !.needed = 1])
         ELSE IF b \in 224..239
           THEN Utf8Step(bytes, i + 1,
                  [cp |-> b % 16, needed |-> 2,
                   lower |-> IF b = 224 THEN 160 ELSE 128,
                   upper |-> IF b = 237 THEN 159 ELSE 191])
         ELSE IF b \in 240..244
           THEN Utf8Step(bytes, i + 1,
                  [cp |-> b % 8, needed |-> 3,
                   lower |-> IF b = 240 THEN 144 ELSE 128,
                   upper |-> IF b = 244 THEN 143 ELSE 191])
         ELSE << Replacement >> \o Utf8Step(bytes, i + 1, idle)
    ELSE IF b < d.lower \/ b > d.upper
         THEN << Replacement >> \o Utf8Step(bytes, i, idle)
         ELSE LET cp == d.cp * 64 + (b % 64) IN
              IF d.needed = 1
              THEN << cp >> \o Utf8Step(bytes, i + 1, idle)
              ELSE Utf8Step(bytes, i + 1,
                     [cp |-> cp, needed |-> d.needed - 1,
                      lower |-> 128, upper |-> 191])

\* UTF_8 decode, malformed sequences replaced.
Utf8Decode(bytes) ==
  Utf8Step(bytes, 1, [cp |-> 0, needed |-> 0, lower |-> 128, upper |-> 191])

RECURSIVE Utf16Step(_, _, _, _)
\* The UTF-16 decoder of the Encoding Standard; lead is the pending lead
\* surrogate or 0.
Utf16Step(bytes, i, be, lead) ==
  IF i > Len(bytes) THEN IF lead # 0 THEN << Replacement >> ELSE << >>
  ELSE IF i = Len(bytes) THEN << Replacement >>
  ELSE LET u == IF be THEN bytes[i] * 256 + bytes[i + 1]
                      ELSE bytes[i + 1] * 256 + bytes[i]
       IN IF lead # 0
          THEN IF u \in 56320..57343
               THEN << 65536 + (lead - 55296) * 1024 + (u - 56320) >>
                      \o Utf16Step(bytes, i + 2, be, 0)
               ELSE << Replacement >> \o Utf16Step(bytes, i, be, 0)
          ELSE IF u \in 55296..56319 THEN Utf16Step(bytes, i + 2, be, u)
          ELSE IF u \in 56320..57343
               THEN << Replacement >> \o Utf16Step(bytes, i + 2, be, 0)
          ELSE << u >> \o Utf16Step(bytes, i + 2, be, 0)

\* Encoding::for_label on the charsets of the model: the utf-8 labels give
\* UTF_8, the windows-1252 labels (iso-8859-1, latin1, us-ascii, ... all
\* name windows-1252 in encoding_rs) give WINDOWS_1252, an unknown label
\* gives None.  Leading and trailing ASCII whitespace of a label is ignored.
ForLabel(label) ==
  LET l == ToAsciiLowercase(TrimBoth(label)) IN
  IF l \in { S(<<"u","t","f","-","8">>), S(<<"u","t","f","8">>) }
  THEN "UTF_8"
  ELSE IF l \in { S(<<"i","s","o","-","8","8","5","9","-","1">>),
                  S(<<"w","i","n","d","o","w","s","-","1","2","5","2">>),
                  S(<<"l","a","t","i","n","1">>),
                  S(<<"u","s","-","a","s","c","i","i">>) }
  THEN "WINDOWS_1252"
  ELSE "None"

\* Encoding::decode: a byte order mark overrides the encoding and is
\* removed; the rest is decoded with replacement of malformed sequences.
EncodingDecode(encoder, bytes) ==
  IF Len(bytes) >= 3 /\ SubSeq(bytes, 1, 3) = << 239, 187, 191 >>
  THEN Utf8Decode(Drop(bytes, 3))
  ELSE IF Len(bytes) >= 2 /\ SubSeq(bytes, 1, 2) = << 255, 254 >>
  THEN Utf16Step(Drop(bytes, 2), 1, FALSE, 0)
  ELSE IF Len(bytes) >= 2 /\ SubSeq(bytes, 1, 2) = << 254, 255 >>
  THEN Utf16Step(Drop(bytes, 2), 1, TRUE, 0)
  ELSE IF encoder = "UTF_8" THEN Utf8Decode(bytes)
  ELSE Windows1252Decode(bytes)

\* str::replace("_", " ")
ReplaceUnderscore(s) == [i \in 1..Len(s) |-> IF s[i] = 95 THEN 32 ELSE s[i]]

\* The encoder decode_charset_crate selects, applied to the bytes.
Transcode(charset, encoded_text) ==
  LET label == ForLabel(ToAsciiLowercase(charset))
      encoder == IF label = "None" THEN "WINDOWS_1252" ELSE label
  IN EncodingDecode(encoder, encoded_text)

\* A decode_charset_crate that returns the transcoded text as it is.
decode_charset_crate_plain(charset, encoded_text) ==
  Ok(Transcode(charset, encoded_text))

decode_charset_crate(charset, encoded_text) ==
  LET s == Transcode(charset, encoded_text)
      out == ReplaceUnderscore(s)
  IN Ok(out)

\* The transport decoding parse_encoding selects by the encoding letter.
TransportDecode(encoding, data) ==
  LET e == ToAsciiUppercase(encoding) IN
  IF e = S(<<"Q">>) THEN QuotedPrintableDecode(data)
  ELSE IF e = S(<<"B">>) THEN decode_base64(data)
  ELSE Err("Unknown encoding type")

parse_encoding(charset, encoding, data) ==
  LET decoded == TransportDecode(encoding, data)
  IN IF decoded.ok THEN decode_charset_crate(charset, decoded.val)
     ELSE decoded

(***************************************************************************)
(* parse_header: the encoded-word grammar and its replacement              *)
(***************************************************************************)

RECURSIVE IndexOf(_, _, _)
\* First index >= from at which c occurs in h, 0 when there is none.
IndexOf(h, from, c) ==
  IF from > Len(h) THEN 0
  ELSE IF h[from] = c THEN from
  ELSE IndexOf(h, from + 1, c)

RECURSIVE IndexOfEnd(_, _)
\* First index >= from at which "?=" starts in h, 0 when there is none.
IndexOfEnd(h, from) ==
  IF from + 1 > Len(h) THEN 0
  ELSE IF h[from] = 63 /\ h[from + 1] = 61 THEN from
  ELSE IndexOfEnd(h, from + 1)

NoMatch == [found |-> FALSE]

\* The match of =\?([^?]+)\?([^?]+)\?(.*?)\?= that starts at index i.
\* [^?]+ runs to the next '?', and the lazy .*? runs to the first "?=" and
\* does not cross a line feed.
MatchAt(h, i) ==
  IF ~(i + 1 <= Len(h) /\ h[i] = 61 /\ h[i + 1] = 63) THEN NoMatch
  ELSE LET q1 == IndexOf(h, i + 2, 63) IN
    IF q1 = 0 \/ q1 = i + 2 THEN NoMatch
    ELSE LET q2 == IndexOf(h, q1 + 1, 63) IN
      IF q2 = 0 \/ q2 = q1 + 1 THEN NoMatch
      ELSE LET e == IndexOfEnd(h, q2 + 1) IN
        IF e = 0 \/ (\E k \in (q2 + 1)..(e - 1) : h[k] = 10) THEN NoMatch
        ELSE [found |-> TRUE, start |-> i, end |-> e + 1,
              all |-> SubSeq(h, i, e + 1),
              charset |-> SubSeq(h, i + 2, q1 - 1),
              encoding |-> SubSeq(h, q1 + 1, q2 - 1),
              encoded_text |-> SubSeq(h, q2 + 1, e - 1)]

RECURSIVE FindMatch(_, _)
\* The leftmost match that starts at or after index from.
FindMatch(h, from) ==
  IF from > Len(h) THEN NoMatch
  ELSE IF MatchAt(h, from).found THEN MatchAt(h, from)
  ELSE FindMatch(h, from + 1)

\* A replacement closure that drops a token it cannot decode.
DropFailedToken(caps) ==
  LET r == parse_encoding(caps.charset, caps.encoding, caps.encoded_text)
  IN IF r.ok THEN r.val ELSE << >>

\* The replacement closure of parse_header: the decoded text, or the whole
\* match when decoding fails.
TokenReplacement(caps) ==
  LET r == parse_encoding(caps.charset, caps.encoding, caps.encoded_text)
  IN IF r.ok THEN r.val ELSE caps.all

RECURSIVE ReplaceAll(_, _)
\* Regex::replace_all from index from: literal text is copied, every
\* non-overlapping match, leftmost first, is replaced.
ReplaceAll(h, from) ==
  LET m == FindMatch(h, from) IN
  IF ~m.found THEN SubSeq(h, from, Len(h))
  ELSE SubSeq(h, from, m.start - 1) \o TokenReplacement(m)
         \o ReplaceAll(h, m.end + 1)

\* parse_header as a function.
parse_header(h) == Ok(ReplaceAll(TrimStart(h), 1))

(***************************************************************************)
(* State                                                                   *)
(***************************************************************************)

VARIABLES
  \* parse_header
  header,      \* the argument
  text,        \* header.trim_start(), the text replace_all scans
  pos,         \* index of the first character not yet consumed
  output,      \* the text built so far
  segs,        \* the segments consumed so far, in order
  errlog,      \* the lines written by eprintln!
  hpc,         \* "start", "scan" or "done"
  hresult,     \* the returned Result
  \* parse_file
  file,        \* the file at path: whether it can be read, and its lines
  st,          \* the locals of parse_file
  \* main
  inputs,      \* args.inputs
  paths,       \* the folders found to exist
  ip,          \* index of the next input, then of the next folder
  fp,          \* index of the next file of the current folder
  handles,     \* the spawned tasks: file, basename and, once run, the line
  nextAwait,   \* index of the next handle to await
  stdout,      \* the lines printed
  mpc          \* position of main

hvars == << header, text, pos, output, segs, errlog, hpc, hresult >>
pvars == << file, st >>
mvars == << inputs, paths, ip, fp, handles, nextAwait, stdout, mpc >>
vars == << hvars, pvars, mvars >>

\* Bounds of the model.
MaxSegs == 3

\* All sequences over set of length at most n.
SeqsUpTo(set, n) == UNION { [1..k -> set] : k \in 0..n }

\* An encoded word.
Tok(charset, encoding, payload) ==
  S(<<"=","?">>) \o charset \o S(<<"?">>) \o encoding \o S(<<"?">>)
    \o payload \o S(<<"?","=">>)

UTF8 == S(<<"U","T","F","-","8">>)

\* The pieces header values are built from: literals, a Q and a B word
\* that both decode to a_b, a lower-case q word with an escape, a word
\* with an unsupported encoding letter, a word with malformed Base64 and
\* an unterminated word opening.
HeaderSegments ==
  { S(<<" ">>),
    S(<<"a","_","b">>),
    S(<<"=","?","x","?">>),
    Tok(UTF8, S(<<"Q">>), S(<<"a","_","b">>)),
    Tok(UTF8, S(<<"B">>), S(<<"Y","V","9","i">>)),
    Tok(S(<<"i","s","o","-","8","8","5","9","-","1">>), S(<<"q">>),
        S(<<"=","E","9","_">>)),
    Tok(UTF8, S(<<"X">>), S(<<"a","b","c">>)),
    Tok(UTF8, S(<<"B">>), S(<<"Y","Q">>)) }

HeaderValues == { Concat(ss) : ss \in SeqsUpTo(HeaderSegments, MaxSegs) }

\* Values of the variables of an operation that is not running.
HeaderIdle ==
  /\ header = << >> /\ text = << >> /\ pos = 0 /\ output = << >>
  /\ segs = << >> /\ errlog = << >> /\ hpc = "idle" /\ hresult = Ok(<< >>)

(***************************************************************************)
(* parse_header, one step per segment of replace_all                       *)
(***************************************************************************)

\* header.trim_start()
HeaderTrim ==
  /\ hpc = "start"
  /\ text' = TrimStart(header)
  /\ pos' = 1
  /\ hpc' = "scan"
  /\ UNCHANGED << header, output, segs, errlog, hresult, pvars, mvars >>

\* The text before the next match, or the rest when there is no match, is
\* copied unchanged.
CopyLiteral ==
  /\ hpc = "scan"
  /\ pos <= Len(text)
  /\ LET m == FindMatch(text, pos)
         stop == IF m.found THEN m.start - 1 ELSE Len(text)
     IN /\ stop >= pos
        /\ output' = output \o SubSeq(text, pos, stop)
        /\ segs' = Append(segs, [kind |-> "literal", start |-> pos,
                                 src |-> SubSeq(text, pos, stop),
                                 out |-> SubSeq(text, pos, stop), ok |-> TRUE])
        /\ pos' = stop + 1
  /\ UNCHANGED << header, text, errlog, hpc, hresult, pvars, mvars >>

\* The closure on a match whose parse_encoding is Ok.
DecodeToken ==
  /\ hpc = "scan"
  /\ LET m == MatchAt(text, pos) IN
     /\ m.found
     /\ parse_encoding(m.charset, m.encoding, m.encoded_text).ok
     /\ output' = output \o TokenReplacement(m)
     /\ segs' = Append(segs, [kind |-> "token", start |-> pos, src |-> m.all,
                              out |-> TokenReplacement(m), ok |-> TRUE])
     /\ pos' = m.end + 1
  /\ UNCHANGED << header, text, errlog, hpc, hresult, pvars, mvars >>

\* The closure on a match whose parse_encoding is Err: the error is
\* written to stderr.
KeepToken ==
  /\ hpc = "scan"
  /\ LET m == MatchAt(text, pos)
         r == parse_encoding(m.charset, m.encoding, m.encoded_text)
     IN
     /\ m.found
     /\ ~r.ok
     /\ errlog' = Append(errlog, r.val)
     /\ output' = output \o TokenReplacement(m)
     /\ segs' = Append(segs, [kind |-> "token", start |-> pos, src |-> m.all,
                              out |-> TokenReplacement(m), ok |-> FALSE])
     /\ pos' = m.end + 1
  /\ UNCHANGED << header, text, hpc, hresult, pvars, mvars >>

\* return Ok(output.into_owned())
HeaderReturn ==
  /\ hpc = "scan"
  /\ pos > Len(text)
  /\ hresult' = Ok(output)
  /\ hpc' = "done"
  /\ UNCHANGED << header, text, pos, output, segs, errlog, pvars, mvars >>

(***************************************************************************)
(* parse_file                                                              *)
(***************************************************************************)

\* Option<String>
None == [some |-> FALSE]
Some(v) == [some |-> TRUE, val |-> v]

SubjectColon == S(<<"S","u","b","j","e","c","t",":">>)
FromColon == S(<<"F","r","o","m",":">>)

\* The locals of parse_file before the loop.  raw is the last value handed
\* to parse_header and at the index of the header line it came from.
ParseStart ==
  [pc |-> "read", idx |-> 1, subject_lines |-> << >>, subject |-> None,
   from |-> None, raw |-> << >>, at |-> 0, result |-> Err("pending")]

\* match parse_header(..) { Ok(s) => Some(s), Err(e) => Some(e.to_string()) }
Decoded(raw) == Some(parse_header(raw).val)

RECURSIVE FoldedCount(_, _)
\* Number of consecutive lines from index i on that start with a space.
FoldedCount(ls, i) ==
  IF i <= Len(ls) /\ StartsWith(ls[i], S(<<" ">>))
  THEN 1 + FoldedCount(ls, i + 1) ELSE 0

\* The "Subject:" branch: the line and the following lines that start with
\* a space are pushed onto subject_lines, which is never cleared.
SubjectStep(ls, s) ==
  LET k == FoldedCount(ls, s.idx + 1)
      subject_lines == s.subject_lines \o SubSeq(ls, s.idx, s.idx + k)
      raw == TrimStartMatches(Concat(subject_lines), SubjectColon)
  IN [s EXCEPT !.idx = s.idx + 1 + k, !.subject_lines = subject_lines,
               !.subject = Decoded(raw), !.raw = raw, !.at = s.idx]

\* The "From:" branch: the line alone.
FromStep(ls, s) ==
  LET raw == TrimStartMatches(ls[s.idx], FromColon)
  IN [s EXCEPT !.idx = s.idx + 1, !.from = Decoded(raw), !.raw = raw,
               !.at = s.idx]

\* Any other line is skipped.
SkipStep(ls, s) == [s EXCEPT !.idx = s.idx + 1]

\* One iteration of the while loop.
LoopStep(ls, s) ==
  IF StartsWith(ls[s.idx], SubjectColon) THEN SubjectStep(ls, s)
  ELSE IF StartsWith(ls[s.idx], FromColon) THEN FromStep(ls, s)
  ELSE SkipStep(ls, s)

MailInfo(s) == [from |-> s.from, subject |-> s.subject]

RECURSIVE RunLoop(_, _)
RunLoop(ls, s) ==
  IF s.idx > Len(ls) THEN s ELSE RunLoop(ls, LoopStep(ls, s))

\* A parse_file that reads an unreadable file as an empty one.
parse_file_lenient(f) ==
  Ok(MailInfo(RunLoop(IF f.readable THEN f.lines ELSE << >>, ParseStart)))

\* parse_file as a function of the file: Err when read_to_string fails,
\* otherwise the MailInfo left by the loop.
parse_file(f) ==
  IF ~f.readable THEN Err("read error")
  ELSE Ok(MailInfo(RunLoop(f.lines, ParseStart)))

\* let contents = fs::read_to_string(path)?
ReadFile ==
  /\ st.pc = "read"
  /\ st' = IF file.readable THEN [st EXCEPT !.pc = "loop"]
           ELSE [st EXCEPT !.pc = "done", !.result = Err("read error")]
  /\ UNCHANGED << file, hvars, mvars >>

SubjectHeader ==
  /\ st.pc = "loop"
  /\ st.idx <= Len(file.lines)
  /\ StartsWith(file.lines[st.idx], SubjectColon)
  /\ st' = SubjectStep(file.lines, st)
  /\ UNCHANGED << file, hvars, mvars >>

FromHeader ==
  /\ st.pc = "loop"
  /\ st.idx <= Len(file.lines)
  /\ ~StartsWith(file.lines[st.idx], SubjectColon)
  /\ StartsWith(file.lines[st.idx], FromColon)
  /\ st' = FromStep(file.lines, st)
  /\ UNCHANGED << file, hvars, mvars >>

OtherLine ==
  /\ st.pc = "loop"
  /\ st.idx <= Len(file.lines)
  /\ ~StartsWith(file.lines[st.idx], SubjectColon)
  /\ ~StartsWith(file.lines[st.idx], FromColon)
  /\ st' = SkipStep(file.lines, st)
  /\ UNCHANGED << file, hvars, mvars >>

\* return Ok(MailInfo { from, subject })
ParseReturn ==
  /\ st.pc = "loop"
  /\ st.idx > Len(file.lines)
  /\ st' = [st EXCEPT !.pc = "done", !.result = Ok(MailInfo(st))]
  /\ UNCHANGED << file, hvars, mvars >>

\* Bound on the number of lines of a message.
MaxLines == 3

\* The lines messages are built from.
MessageLines ==
  { S(<<"S","u","b","j","e","c","t",":"," ","a">>),
    S(<<"S","u","b","j","e","c","t",":","S","u","b","j","e","c","t",":"," ","x">>),
    S(<<"S","U","B","J","E","C","T",":"," ","g">>),
    S(<<"F","r","o","m",":"," ","e">>),
    S(<<"F","r","o","m",":"," ","f">>),
    S(<<"f","r","o","m",":"," ","h">>),
    S(<<" ","c">>),
    << 9 >> \o S(<<"d">>),
    << >>,
    S(<<"S","u","b","j","e","c","t",":"," ">>)
      \o Tok(UTF8, S(<<"Q">>), S(<<"a","_","b">>)) }

\* A message file: unreadable, or readable with its lines.
Unreadable == [readable |-> FALSE, lines |-> << >>]
Readable(ls) == [readable |-> TRUE, lines |-> ls]

Messages ==
  { Unreadable } \cup { Readable(ls) : ls \in SeqsUpTo(MessageLines, MaxLines) }

ParseIdle == file = Unreadable /\ st = [ParseStart EXCEPT !.pc = "idle"]

(***************************************************************************)
(* main: one task per enumerated file, output in handle order              *)
(***************************************************************************)

\* The line a task returns: the summary of the parsed message, or the
\* placeholder when parse_file fails.  A line is modelled by the values
\* format! interpolates.
TaskLine(f, basename) ==
  LET content == parse_file(f) IN
  IF content.ok
  THEN [kind |-> "summary", mailbox |-> basename,
        from |-> IF content.val.from.some THEN content.val.from.val
                 ELSE S(<<"n","o"," ","f","r","o","m">>),
        subject |-> IF content.val.subject.some THEN content.val.subject.val
                    ELSE S(<<"n","o"," ","s","u","b","j","e","c","t">>)]
  ELSE [kind |-> "placeholder", mailbox |-> basename, error |-> content.val]

\* A directory entry: read_dir yields it (entry_ok) or an error for it.
Entry(f) == [entry_ok |-> TRUE, file |-> f]
BadEntry == [entry_ok |-> FALSE, file |-> Unreadable]

\* A cur or new folder: whether it exists, whether read_dir succeeds on
\* it, and its entries in the order read_dir yields them.
Folder(entries) == [exists |-> TRUE, readable |-> TRUE, entries |-> entries]
NoFolder == [exists |-> FALSE, readable |-> FALSE, entries |-> << >>]
BadFolder == [exists |-> TRUE, readable |-> FALSE, entries |-> << >>]

MsgPlain ==
  Readable(<< S(<<"F","r","o","m",":"," ","e">>),
              S(<<"S","u","b","j","e","c","t",":"," ","a">>) >>)
MsgEncoded ==
  Readable(<< S(<<"S","u","b","j","e","c","t",":"," ">>)
                \o Tok(UTF8, S(<<"Q">>), S(<<"a","_","b">>)) >>)

\* The mailboxes the command line may name.
Mailboxes ==
  { [name |-> "a", cur |-> Folder(<< Entry(MsgPlain), Entry(Unreadable) >>),
     new |-> Folder(<< Entry(MsgEncoded) >>)],
    [name |-> "b", cur |-> NoFolder,
     new |-> Folder(<< Entry(Unreadable), BadEntry, Entry(MsgPlain) >>)],
    [name |-> "c", cur |-> BadFolder, new |-> Folder(<< Entry(MsgEncoded) >>)],
    [name |-> "d", cur |-> NoFolder, new |-> NoFolder] }

\* Bound on the number of mailboxes on the command line.
MaxInputs == 2

MainIdle ==
  /\ inputs = << >> /\ paths = << >> /\ ip = 0 /\ fp = 0
  /\ handles = << >> /\ nextAwait = 0 /\ stdout = << >> /\ mpc = "idle"

\* find_files: the paths of the entries read_dir yields without error.
find_files(folder) ==
  LET ok == SelectSeq(folder.entries, LAMBDA e : e.entry_ok)
  IN [i \in 1..Len(ok) |-> ok[i].file]

\* One iteration of "for path in args.inputs".
CollectInput ==
  /\ mpc = "collect"
  /\ ip <= Len(inputs)
  /\ LET m == inputs[ip]
         cur == IF m.cur.exists
                THEN << [basename |-> m.name, folder |-> m.cur] >> ELSE << >>
         new == IF m.new.exists
                THEN << [basename |-> m.name, folder |-> m.new] >> ELSE << >>
     IN paths' = paths \o cur \o new
  /\ ip' = ip + 1
  /\ UNCHANGED << inputs, fp, handles, nextAwait, stdout, mpc, hvars, pvars >>

\* Start of "for path in paths", or its next iteration.
NextFolder ==
  \/ /\ mpc = "collect"
     /\ ip > Len(inputs)
     /\ ip' = 1
     /\ mpc' = "folders"
     /\ UNCHANGED << inputs, paths, fp, handles, nextAwait, stdout,
                     hvars, pvars >>
  \/ /\ mpc = "spawn"
     /\ fp > Len(find_files(paths[ip].folder))
     /\ ip' = ip + 1
     /\ mpc' = "folders"
     /\ UNCHANGED << inputs, paths, fp, handles, nextAwait, stdout,
                     hvars, pvars >>

\* let files = find_files(&path): read_dir succeeds.
FindFiles ==
  /\ mpc = "folders"
  /\ ip <= Len(paths)
  /\ paths[ip].folder.readable
  /\ fp' = 1
  /\ mpc' = "spawn"
  /\ UNCHANGED << inputs, paths, ip, handles, nextAwait, stdout,
                  hvars, pvars >>

\* find_files panics when read_dir fails (expect): main unwinds and the
\* process exits without printing.
FindFilesPanic ==
  /\ mpc = "folders"
  /\ ip <= Len(paths)
  /\ ~paths[ip].folder.readable
  /\ mpc' = "panicked"
  /\ UNCHANGED << inputs, paths, ip, fp, handles, nextAwait, stdout,
                  hvars, pvars >>

\* One iteration of "for file in files": tokio::spawn and handles.push.
Spawn ==
  /\ mpc = "spawn"
  /\ fp <= Len(find_files(paths[ip].folder))
  /\ handles' = Append(handles,
       [file |-> find_files(paths[ip].folder)[fp],
        basename |-> paths[ip].basename,
        done |-> FALSE, late |-> FALSE,
        line |-> [kind |-> "none"]])
  /\ fp' = fp + 1
  /\ UNCHANGED << inputs, paths, ip, nextAwait, stdout, mpc, hvars, pvars >>

\* A spawned task runs to completion, at any time after its spawn.  late
\* records that a task spawned after it had already completed.
TaskRun(i) ==
  /\ mpc \in {"spawn", "folders", "await"}
  /\ ~handles[i].done
  /\ handles' = [handles EXCEPT
       ![i] = [@ EXCEPT !.done = TRUE,
                        !.late = \E j \in (i + 1)..Len(handles) : handles[j].done,
                        !.line = TaskLine(handles[i].file, handles[i].basename)]]
  /\ UNCHANGED << inputs, paths, ip, fp, nextAwait, stdout, mpc, hvars, pvars >>

\* "for handle in handles" becomes reachable when every folder is done.
StartAwait ==
  /\ mpc = "folders"
  /\ ip > Len(paths)
  /\ nextAwait' = 1
  /\ mpc' = "await"
  /\ UNCHANGED << inputs, paths, ip, fp, handles, stdout, hvars, pvars >>

\* A loop that takes the handles from the back of the vector.
AwaitIndexFromBack(hs, n) == Len(hs) + 1 - n

\* The handle awaited by the n-th iteration of "for handle in handles".
AwaitIndex(hs, n) == n

\* handle.await returns once the task is complete; its line is printed.
\* No task panics, so the JoinError arm is never taken.
AwaitHandle ==
  /\ mpc = "await"
  /\ nextAwait <= Len(handles)
  /\ handles[AwaitIndex(handles, nextAwait)].done
  /\ stdout' = Append(stdout, handles[AwaitIndex(handles, nextAwait)].line)
  /\ nextAwait' = nextAwait + 1
  /\ UNCHANGED << inputs, paths, ip, fp, handles, mpc, hvars, pvars >>

MainReturn ==
  /\ mpc = "await"
  /\ nextAwait > Len(handles)
  /\ mpc' = "done"
  /\ UNCHANGED << inputs, paths, ip, fp, handles, nextAwait, stdout,
                  hvars, pvars >>

(***************************************************************************)
(* Specifications                                                          *)
(***************************************************************************)

\* parse_header on every header value of HeaderValues.
InitHeader ==
  /\ header \in HeaderValues
  /\ text = << >> /\ pos = 0 /\ output = << >> /\ segs = << >>
  /\ errlog = << >> /\ hpc = "start" /\ hresult = Err("pending")
  /\ ParseIdle /\ MainIdle

NextHeader ==
  \/ HeaderTrim
  \/ CopyLiteral
  \/ DecodeToken
  \/ KeepToken
  \/ HeaderReturn

SpecHeader == InitHeader /\ [][NextHeader]_vars

\* parse_file on every message of Messages.
InitParse ==
  /\ file \in Messages
  /\ st = ParseStart
  /\ HeaderIdle /\ MainIdle

NextParse ==
  \/ ReadFile
  \/ SubjectHeader
  \/ FromHeader
  \/ OtherLine
  \/ ParseReturn

SpecParse == InitParse /\ [][NextParse]_vars

\* main on every command line of at most MaxInputs mailboxes.
InitMain ==
  /\ inputs \in SeqsUpTo(Mailboxes, MaxInputs)
  /\ paths = << >> /\ ip = 1 /\ fp = 0 /\ handles = << >>
  /\ nextAwait = 0 /\ stdout = << >> /\ mpc = "collect"
  /\ HeaderIdle /\ ParseIdle

NextMain ==
  \/ CollectInput
  \/ NextFolder
  \/ FindFiles
  \/ FindFilesPanic
  \/ Spawn
  \/ \E i \in 1..Len(handles) : TaskRun(i)
  \/ StartAwait
  \/ AwaitHandle
  \/ MainReturn

SpecMain == InitMain /\ [][NextMain]_vars

(***************************************************************************)
(* Properties of parse_file (SpecParse)                                    *)
(***************************************************************************)

\* parse_file has returned Ok for a file that could be read.
Parsed == st.pc = "done" /\ file.readable

\* A line that starts with a space or a tab.
IsContinuation(l) == l # << >> /\ l[1] \in {32, 9}

RECURSIVE ContinuationCount(_, _)
\* Number of consecutive continuation lines from index i on.
ContinuationCount(ls, i) ==
  IF i <= Len(ls) /\ IsContinuation(ls[i])
  THEN 1 + ContinuationCount(ls, i + 1) ELSE 0

\* The lines before the first empty line.
HeaderBlock(ls) ==
  IF \E i \in 1..Len(ls) : ls[i] = << >>
  THEN SubSeq(ls, 1, (CHOOSE i \in 1..Len(ls) :
                        ls[i] = << >> /\ \A j \in 1..(i - 1) : ls[j] # << >>) - 1)
  ELSE ls

\* C1: lines after the first empty line never change the result: the
\* result for a message is the result for its header block alone.
C1_BodyNeverInspected ==
  Parsed => st.result = parse_file(Readable(HeaderBlock(file.lines)))

\* Line i repeats a wanted header that an earlier line already gave.
IsLaterOccurrence(ls, i) ==
  \E p \in {SubjectColon, FromColon} :
    StartsWith(ls[i], p) /\ \E j \in 1..(i - 1) : StartsWith(ls[j], p)

\* Line i is a later occurrence or one of its continuation lines.
InLaterOccurrence(ls, i) ==
  \E j \in 1..i :
    /\ IsLaterOccurrence(ls, j)
    /\ \A k \in (j + 1)..i : IsContinuation(ls[k])

\* The message without the later occurrences of its wanted headers.
FirstOccurrences(ls) ==
  LET keep == { i \in 1..Len(ls) : ~InLaterOccurrence(ls, i) }
      nth(n) == CHOOSE i \in keep : Cardinality({ j \in keep : j < i }) = n - 1
  IN [n \in 1..Cardinality(keep) |-> ls[nth(n)]]

\* C2: later occurrences of a wanted header are ignored: the result for a
\* message is the result for the message without them.
C2_FirstOccurrenceWins ==
  Parsed => st.result = parse_file(Readable(FirstOccurrences(file.lines)))

\* The wanted header name, colon included, that line l starts with.
WantedPrefix(l) ==
  IF StartsWith(l, SubjectColon) THEN SubjectColon
  ELSE IF StartsWith(l, FromColon) THEN FromColon
  ELSE << >>

\* The continuation lines after line i, each without its first character.
Unfolded(ls, i) ==
  Concat([j \in 1..ContinuationCount(ls, i + 1) |-> Tail(ls[i + j])])

\* C3: the raw value handed to the decoder for a folded wanted header is
\* the remainder of its first line followed by each continuation line
\* without its first whitespace character (compared after the trim of
\* leading whitespace that the decoder applies).
C3_FoldedValueUnfolded ==
  st.at > 0 /\ ContinuationCount(file.lines, st.at + 1) >= 1 =>
    TrimStart(st.raw) =
      TrimStart(Drop(file.lines[st.at], Len(WantedPrefix(file.lines[st.at])))
                  \o Unfolded(file.lines, st.at))

\* The line with a header name that is a case variant of from or subject
\* respelled From or Subject.
CanonicalLine(l) ==
  LET c == IndexOf(l, 1, 58)
      name == ToAsciiLowercase(TrimBoth(SubSeq(l, 1, c - 1)))
  IN IF c = 0 \/ IsContinuation(l) THEN l
     ELSE IF name = S(<<"s","u","b","j","e","c","t">>)
       THEN SubjectColon \o Drop(l, c)
     ELSE IF name = S(<<"f","r","o","m">>) THEN FromColon \o Drop(l, c)
     ELSE l

\* C4: header names are matched case-insensitively: the result for a
\* message is the result for the message with its header names spelled
\* Subject and From.
C4_CaseInsensitiveNames ==
  Parsed =>
    st.result = parse_file(Readable(
                  [i \in 1..Len(file.lines) |-> CanonicalLine(file.lines[i])]))

\* C10: the raw value of a wanted header is everything on its line after
\* the first colon, leading whitespace trimmed; stated for the first
\* occurrence of a header that is not folded.
C10_SplitOnFirstColon ==
  /\ st.at > 0
  /\ ContinuationCount(file.lines, st.at + 1) = 0
  /\ ~IsLaterOccurrence(file.lines, st.at)
  => TrimStart(st.raw) =
       TrimStart(Drop(file.lines[st.at], IndexOf(file.lines[st.at], 1, 58)))

(***************************************************************************)
(* Properties of parse_header (SpecHeader)                                 *)
(***************************************************************************)

Range(q) == { q[i] : i \in 1..Len(q) }

\* The segments of a given kind consumed so far.
Tokens(ok) == { k \in 1..Len(segs) : segs[k].kind = "token" /\ segs[k].ok = ok }
Literals == { k \in 1..Len(segs) : segs[k].kind = "literal" }

\* The text after segment k.
After(k) == SubSeq(text, segs[k].start + Len(segs[k].src), Len(text))

\* C5: a token whose transport decoding fails is replaced by its own text,
\* delimiters included; the text before it and the text after it are
\* processed as they are without it; parse_header returns Ok.
C5_FailedTokenKept ==
  /\ hpc = "done" => hresult.ok /\ hresult.val = output
  /\ \A k \in Tokens(FALSE) :
       /\ segs[k].out = segs[k].src
       /\ segs[k].src = SubSeq(text, segs[k].start,
                               segs[k].start + Len(segs[k].src) - 1)
       /\ StartsWith(segs[k].src, S(<<"=","?">>))
       /\ SubSeq(segs[k].src, Len(segs[k].src) - 1, Len(segs[k].src))
            = S(<<"?","=">>)
       /\ hpc = "done" =>
            output = ReplaceAll(SubSeq(text, 1, segs[k].start - 1), 1)
                       \o segs[k].src \o ReplaceAll(After(k), 1)

\* parse_header has returned for a value with a token of an unsupported
\* encoding letter, a token of malformed Base64 and a token that decodes.
C5_Witness ==
  /\ hpc = "done"
  /\ \E k \in Tokens(FALSE) :
       ToAsciiUppercase(MatchAt(segs[k].src, 1).encoding) \notin {S(<<"Q">>), S(<<"B">>)}
  /\ \E k \in Tokens(FALSE) :
       ToAsciiUppercase(MatchAt(segs[k].src, 1).encoding) = S(<<"B">>)
  /\ \E k \in Tokens(TRUE) : segs[k].out # segs[k].src

\* The value contains an encoded-word token.
HasToken(h) == \E i \in 1..Len(h) : MatchAt(h, i).found

\* C6 as stated: a value without a token is returned unchanged.
C6_IdentityWithoutToken ==
  hpc = "done" /\ ~HasToken(header) => hresult.val = header

\* C6: a value without a token is returned without its leading whitespace
\* and otherwise unchanged, character for character.
C6_IdentityAfterLeadingWhitespace ==
  hpc = "done" /\ ~HasToken(header) =>
    \E k \in 0..Len(header) :
      /\ \A i \in 1..k : IsWhitespace(header[i])
      /\ k < Len(header) => ~IsWhitespace(header[k + 1])
      /\ hresult.val = Drop(header, k)

\* parse_header has returned for a value without a token that has leading
\* whitespace and text after it.
C6_Witness ==
  /\ hpc = "done"
  /\ ~HasToken(header)
  /\ header # << >> /\ IsWhitespace(header[1])
  /\ hresult.val # << >>

\* The transcoded text of the token of segment k, before any substitution.
Transcoded(k) ==
  LET m == MatchAt(segs[k].src, 1)
  IN Transcode(m.charset, TransportDecode(m.encoding, m.encoded_text).val)

\* The encoding letter of the token of segment k, in upper case.
Letter(k) == ToAsciiUppercase(MatchAt(segs[k].src, 1).encoding)

\* C9: the text of a decoded token, Q or B, is its transcoded text with
\* every '_' replaced by a space; a literal segment is copied with its
\* '_' characters.
C9_UnderscoreBecomesSpace ==
  /\ \A k \in Tokens(TRUE) :
       /\ 95 \notin Range(segs[k].out)
       /\ Len(segs[k].out) = Len(Transcoded(k))
       /\ \A i \in 1..Len(segs[k].out) :
            segs[k].out[i] = IF Transcoded(k)[i] = 95 THEN 32
                             ELSE Transcoded(k)[i]
  /\ \A k \in Literals :
       /\ segs[k].out = segs[k].src
       /\ segs[k].src = SubSeq(text, segs[k].start,
                               segs[k].start + Len(segs[k].src) - 1)
  /\ hpc = "done" => hresult.val = Concat([k \in 1..Len(segs) |-> segs[k].out])

\* parse_header has returned for a value with a Q token and a B token
\* whose transcoded text has a '_', and a literal with a '_'.
C9_Witness ==
  /\ hpc = "done"
  /\ \E k \in Tokens(TRUE) : Letter(k) = S(<<"Q">>) /\ 95 \in Range(Transcoded(k))
  /\ \E k \in Tokens(TRUE) : Letter(k) = S(<<"B">>) /\ 95 \in Range(Transcoded(k))
  /\ \E k \in Literals : 95 \in Range(segs[k].out)

(***************************************************************************)
(* Properties of main (SpecMain)                                           *)
(***************************************************************************)

\* The files of a folder in enumeration order, each with its basename.
RECURSIVE FolderFiles(_, _, _)
FolderFiles(folder, name, i) ==
  IF ~folder.exists \/ ~folder.readable \/ i > Len(folder.entries) THEN << >>
  ELSE (IF folder.entries[i].entry_ok
        THEN << [file |-> folder.entries[i].file, basename |-> name] >>
        ELSE << >>) \o FolderFiles(folder, name, i + 1)

\* The files of the command line in enumeration order: mailbox by mailbox,
\* cur before new, file by file.
RECURSIVE Enumerated(_)
Enumerated(ins) ==
  IF ins = << >> THEN << >>
  ELSE FolderFiles(Head(ins).cur, Head(ins).name, 1)
         \o FolderFiles(Head(ins).new, Head(ins).name, 1)
         \o Enumerated(Tail(ins))

\* C7: the lines printed are, in order, the lines of the enumerated files,
\* and when main returns there is exactly one line per enumerated file.
C7_OutputInEnumerationOrder ==
  LET e == Enumerated(inputs) IN
  /\ Len(stdout) <= Len(e)
  /\ \A i \in 1..Len(stdout) : stdout[i] = TaskLine(e[i].file, e[i].basename)
  /\ mpc = "done" => Len(stdout) = Len(e)

\* main has returned after a task completed later than a task spawned
\* after it, with two different lines printed.
C7_Witness ==
  /\ mpc = "done"
  /\ \E i \in 1..Len(handles) : handles[i].late
  /\ \E i, j \in 1..Len(stdout) : stdout[i] # stdout[j]

\* C8: parse_file of an unreadable file is an error and carries no
\* MailInfo, its task returns the placeholder line, the task of every
\* other file returns its summary, all of them are printed when main
\* returns, and the only abort is the panic of find_files on a folder.
C8_ReadFailureIsPlaceholder ==
  /\ \A i \in 1..Len(handles) :
       LET f == handles[i].file IN
       /\ ~f.readable => ~parse_file(f).ok /\ parse_file(f) = Err("read error")
       /\ f.readable => parse_file(f).ok
       /\ handles[i].done =>
            handles[i].line.kind = IF f.readable THEN "summary"
                                   ELSE "placeholder"
  /\ mpc = "done" =>
       /\ Len(stdout) = Len(handles)
       /\ \A i \in 1..Len(handles) :
            handles[i].done /\ stdout[i] = handles[i].line
  /\ mpc = "panicked" => ~paths[ip].folder.readable

\* main has returned with the placeholder of an unreadable file printed
\* before the summary of a readable one.
C8_Witness ==
  /\ mpc = "done"
  /\ \E i, j \in 1..Len(stdout) :
       /\ i < j
       /\ ~handles[i].file.readable /\ stdout[i].kind = "placeholder"
       /\ handles[j].file.readable /\ stdout[j].kind = "summary"

============================================================================
